---- MODULE Spec2Model ----
(***************************************************************************)
(* A model of package fofa (src/fofa/fofa.go): the client Fofa, its two    *)
(* queries QueryAsJSON (FetchRaw) and QueryAsArray (FetchRecords), and the *)
(* byte slicing that turns the "results" array of a reply into records.    *)
(*                                                                         *)
(* A []byte is a sequence of one-character strings; a nil []byte is the    *)
(* record Nil.  A reply body is kept as the envelope the remote service    *)
(* serialises; the raw bytes jsonparser hands back for "results" are that  *)
(* envelope's compact JSON rendering (RawResults), and every slice, split  *)
(* and index of QueryAsArray is carried out on those bytes.  A Go run-time *)
(* panic (slice bounds, index out of range, nil dereference) is an outcome *)
(* of its own.                                                             *)
(***************************************************************************)
EXTENDS Integers, Sequences, FiniteSets, TLC

VARIABLES email, key, pc, op, page, args, url, resp, jret, ret

vars == <<email, key, pc, op, page, args, url, resp, jret, ret>>

-----------------------------------------------------------------------------
(* Bounds of the model *)

MaxRows == 2

MaxArgs == 3

-----------------------------------------------------------------------------
(* Byte slices *)

Nil == [isNil |-> TRUE, b |-> <<>>]

Bytes(s) == [isNil |-> FALSE, b |-> s]

\* s[lo:hi] of Go, lo and hi 0-based; InRange says whether the slice
\* expression is legal (otherwise the run-time panics).
InRange(s, lo, hi) == 0 <= lo /\ lo <= hi /\ hi <= Len(s)

Slice(s, lo, hi) == SubSeq(s, lo + 1, hi)

\* bytes.Index, scanning from position i (1-based): the position of the
\* first occurrence of sep in s at or after i, 0 when there is none.
RECURSIVE IndexFrom(_, _, _)
IndexFrom(s, sep, i) ==
    IF i + Len(sep) - 1 > Len(s) THEN 0
    ELSE IF \A j \in 1..Len(sep) : s[i + j - 1] = sep[j] THEN i
    ELSE IndexFrom(s, sep, i + 1)

\* bytes.Split / strings.Split with a non-empty separator: the pieces of s
\* from position from on.
RECURSIVE SplitFrom(_, _, _)
SplitFrom(s, sep, from) ==
    LET i == IndexFrom(s, sep, from)
    IN IF i = 0 THEN <<SubSeq(s, from, Len(s))>>
       ELSE <<SubSeq(s, from, i - 1)>> \o SplitFrom(s, sep, i + Len(sep))

Split(s, sep) == SplitFrom(s, sep, 1)

\* strings.Trim(s, " ")
RECURSIVE TrimLeft(_)
TrimLeft(s) == IF Len(s) > 0 /\ Head(s) = " " THEN TrimLeft(Tail(s)) ELSE s

RECURSIVE TrimRight(_)
TrimRight(s) ==
    IF Len(s) > 0 /\ s[Len(s)] = " " THEN TrimRight(SubSeq(s, 1, Len(s) - 1)) ELSE s

Trim(s) == TrimRight(TrimLeft(s))

-----------------------------------------------------------------------------
(* base64.StdEncoding.EncodeToString on byte values 0..255; the result is   *)
(* the sequence of alphabet indices 0..63, with 64 standing for '='.        *)

RECURSIVE EncodeToString(_)
EncodeToString(b) ==
    IF Len(b) = 0 THEN <<>>
    ELSE IF Len(b) = 1 THEN <<b[1] \div 4, (b[1] % 4) * 16, 64, 64>>
    ELSE IF Len(b) = 2 THEN
        <<b[1] \div 4, (b[1] % 4) * 16 + (b[2] \div 16), (b[2] % 16) * 4, 64>>
    ELSE <<b[1] \div 4, (b[1] % 4) * 16 + (b[2] \div 16),
            (b[2] % 16) * 4 + (b[3] \div 64), b[3] % 64>>
         \o EncodeToString(SubSeq(b, 4, Len(b)))

-----------------------------------------------------------------------------
(* Field names and the result record *)

FDomain == <<"d", "o", "m", "a", "i", "n">>
FHost == <<"h", "o", "s", "t">>
FIP == <<"i", "p">>
FPort == <<"p", "o", "r", "t">>
FTitle == <<"t", "i", "t", "l", "e">>
FCountry == <<"c", "o", "u", "n", "t", "r", "y">>
FCity == <<"c", "i", "t", "y">>

Comma == <<",">>

RECURSIVE Join(_, _)
Join(parts, sep) ==
    IF Len(parts) = 0 THEN <<>>
    ELSE IF Len(parts) = 1 THEN parts[1]
    ELSE parts[1] \o sep \o Join(Tail(parts), sep)

\* The seven attributes of struct result, in the order QueryAsArray sets them.
FieldNames == <<FDomain, FHost, FIP, FPort, FTitle, FCountry, FCity>>

\* []byte("domain,host,ip,port,title,country,city")
DefaultFields == Join(FieldNames, Comma)

\* The zero value of struct result.
EmptyResult ==
    [Domain |-> <<>>, Host |-> <<>>, IP |-> <<>>, Port |-> <<>>,
     Title |-> <<>>, Country |-> <<>>, City |-> <<>>]

\* The attribute of a result that field number k (1..7) names.
Attr(r, k) ==
    CASE k = 1 -> r.Domain
      [] k = 2 -> r.Host
      [] k = 3 -> r.IP
      [] k = 4 -> r.Port
      [] k = 5 -> r.Title
      [] k = 6 -> r.Country
      [] OTHER -> r.City

SetAttr(r, k, v) ==
    CASE k = 1 -> [r EXCEPT !.Domain = v]
      [] k = 2 -> [r EXCEPT !.Host = v]
      [] k = 3 -> [r EXCEPT !.IP = v]
      [] k = 4 -> [r EXCEPT !.Port = v]
      [] k = 5 -> [r EXCEPT !.Title = v]
      [] k = 6 -> [r EXCEPT !.Country = v]
      [] OTHER -> [r EXCEPT !.City = v]

-----------------------------------------------------------------------------
(* Errors *)

NoError == [kind |-> "nil", msg |-> <<>>]

\* An error of the transport: ff.Get failed.
TransportError == [kind |-> "transport", msg |-> <<>>]

\* errors.New(errmsg)
ErrorsNew(m) == [kind |-> "errors.New", msg |-> m]

\* jsonparser.KeyPathNotFoundError
KeyPathNotFoundError == [kind |-> "KeyPathNotFoundError", msg |-> <<>>]

errFofaReplyWrongFormat == [kind |-> "errFofaReplyWrongFormat", msg |-> <<>>]

errFofaReplyNoData == [kind |-> "errFofaReplyNoData", msg |-> <<>>]

-----------------------------------------------------------------------------
(* The reply of the remote service.  An envelope has the three top-level    *)
(* keys the client reads: errmsg, size, results.  kind is the jsonparser    *)
(* ValueType of the key's value ("NotExist": the key is absent).  An Array  *)
(* under results is either nested, [["v","w"],["x","y"]], one row per       *)
(* match, or flat, ["v","x"], which the service sends for a single field.   *)

Quote(v) == <<"\"">> \o v \o <<"\"">>

\* One row of a nested array: ["v1","v2",...]
RenderRow(row) ==
    <<"[">> \o Join([k \in 1..Len(row) |-> Quote(row[k])], Comma) \o <<"]">>

\* The compact JSON text of the results array.
RawResults(results) ==
    IF results.shape = "flat"
    THEN <<"[">>
         \o Join([i \in 1..Len(results.rows) |-> Quote(results.rows[i][1])], Comma)
         \o <<"]">>
    ELSE <<"[">>
         \o Join([i \in 1..Len(results.rows) |-> RenderRow(results.rows[i])], Comma)
         \o <<"]">>

\* The body of a response of which nothing could be read.
EmptyBody ==
    [errmsg |-> [kind |-> "NotExist", str |-> <<>>],
     size |-> [kind |-> "NotExist", n |-> 0],
     results |-> [kind |-> "NotExist", shape |-> "none", rows |-> <<>>]]

\* jsonparser.GetString(data, "errmsg")
GetString(data) ==
    IF data.errmsg.kind = "String"
    THEN [str |-> data.errmsg.str, err |-> NoError]
    ELSE IF data.errmsg.kind = "NotExist"
    THEN [str |-> <<>>, err |-> KeyPathNotFoundError]
    ELSE [str |-> <<>>, err |-> [kind |-> "Value is not a string", msg |-> <<>>]]

\* jsonparser.GetInt(data, "size")
GetInt(data) ==
    IF data.size.kind = "Number"
    THEN [n |-> data.size.n, err |-> NoError]
    ELSE IF data.size.kind = "NotExist"
    THEN [n |-> 0, err |-> KeyPathNotFoundError]
    ELSE [n |-> 0, err |-> [kind |-> "Value is not a number", msg |-> <<>>]]

\* jsonparser.Get(data, "results"): the raw value, its type and the error.
Get(data) ==
    IF data.results.kind = "NotExist"
    THEN [value |-> <<>>, dataType |-> "NotExist", err |-> KeyPathNotFoundError]
    ELSE IF data.results.kind = "Array"
    THEN [value |-> RawResults(data.results), dataType |-> "Array", err |-> NoError]
    ELSE [value |-> <<>>, dataType |-> data.results.kind, err |-> NoError]

-----------------------------------------------------------------------------
(* QueryAsJSON *)

\* The byte values of the characters a query of the model is written in.
Ord(ch) ==
    CASE ch = "a" -> 97
      [] ch = "i" -> 105
      [] ch = "p" -> 112
      [] ch = "=" -> 61
      [] ch = "1" -> 49
      [] OTHER -> 63

\* The switch on len(args): the query that is encoded.
QueryOf(a) ==
    IF Len(a) = 1 \/ (Len(a) = 2 /\ a[2].isNil) THEN a[1]
    ELSE IF Len(a) = 2 THEN a[1]
    ELSE Nil

\* The switch on len(args): the field list that is sent.
FieldsOf(a) ==
    IF Len(a) = 1 \/ (Len(a) = 2 /\ a[2].isNil) THEN Bytes(DefaultFields)
    ELSE IF Len(a) = 2 THEN a[2]
    ELSE Bytes(DefaultFields)

\* The request URL, as the parts bytes.Join concatenates after defaultAPIUrl.
BuildURL(ffEmail, ffKey, p, a) ==
    [email |-> ffEmail,
     key |-> ffKey,
     qbase64 |-> EncodeToString([i \in 1..Len(QueryOf(a).b) |-> Ord(QueryOf(a).b[i])]),
     fields |-> FieldsOf(a).b,
     page |-> p]

\* JSONReturn with the test of GetString's error inverted: an error when
\* the body has no string errmsg, none when it has one.
JSONReturnInverted(r) ==
    IF r.getErr THEN [buf |-> EmptyBody, isNil |-> TRUE, err |-> TransportError]
    ELSE LET g == GetString(r.body)
         IN IF g.err # NoError
            THEN [buf |-> r.body, isNil |-> FALSE, err |-> ErrorsNew(g.str)]
            ELSE [buf |-> r.body, isNil |-> FALSE, err |-> NoError]

\* JSONReturn answering an errmsg with the package's own format error.
JSONReturnFormatError(r) ==
    IF r.getErr THEN [buf |-> EmptyBody, isNil |-> TRUE, err |-> TransportError]
    ELSE LET g == GetString(r.body)
         IN IF g.err = NoError
            THEN [buf |-> r.body, isNil |-> FALSE, err |-> errFofaReplyWrongFormat]
            ELSE [buf |-> r.body, isNil |-> FALSE, err |-> NoError]

\* What QueryAsJSON returns once ff.Get has returned.  r.getErr: ff.Get
\* failed; r.readErr: ioutil.ReadAll failed (its error is overwritten by the
\* one of GetString, and what was read is kept in buf).
JSONReturn(r) ==
    IF r.getErr THEN [buf |-> EmptyBody, isNil |-> TRUE, err |-> TransportError]
    ELSE LET g == GetString(r.body)
         IN IF g.err = NoError
            THEN [buf |-> r.body, isNil |-> FALSE, err |-> ErrorsNew(g.str)]
            ELSE [buf |-> r.body, isNil |-> FALSE, err |-> NoError]

-----------------------------------------------------------------------------
(* QueryAsArray *)

\* LastIndex with the position counted from 1: mapFields[name] = i + 1.
LastIndexFromOne(fields, n) ==
    LET at == {i \in 1..Len(fields) : Trim(fields[i]) = n}
    IN CHOOSE i \in at : \A j \in at : j <= i

\* The last index i (0-based) at which the trimmed name n stands in fields.
LastIndex(fields, n) ==
    LET at == {i \in 1..Len(fields) : Trim(fields[i]) = n}
    IN (CHOOSE i \in at : \A j \in at : j <= i) - 1

\* "map field to index": mapFields, a function from field name to column.
MapFields(a) ==
    IF Len(a) > 1 /\ ~a[2].isNil
    THEN LET fields == Split(a[2].b, Comma)
         IN [n \in {Trim(fields[i]) : i \in 1..Len(fields)} |-> LastIndex(fields, n)]
    ELSE [n \in {FieldNames[k] : k \in 1..7} |->
            (CHOOSE k \in 1..7 : FieldNames[k] = n) - 1]

\* SplitRows stripping one bracket, not two, before splitting on "],[".
SplitRowsOneBracket(results, mapFields) ==
    IF Cardinality(DOMAIN mapFields) > 1
    THEN IF InRange(results, 1, Len(results) - 1)
         THEN [panicked |-> FALSE,
               rows |-> Split(Slice(results, 1, Len(results) - 1), <<"]", ",", "[">>)]
         ELSE [panicked |-> TRUE, rows |-> <<>>]
    ELSE IF InRange(results, 1, Len(results) - 1)
         THEN [panicked |-> FALSE,
               rows |-> Split(Slice(results, 1, Len(results) - 1), Comma)]
         ELSE [panicked |-> TRUE, rows |-> <<>>]

\* SplitRows splitting a one-field reply without stripping its brackets.
SplitRowsKeepsBrackets(results, mapFields) ==
    IF Cardinality(DOMAIN mapFields) > 1
    THEN IF InRange(results, 2, Len(results) - 2)
         THEN [panicked |-> FALSE,
               rows |-> Split(Slice(results, 2, Len(results) - 2), <<"]", ",", "[">>)]
         ELSE [panicked |-> TRUE, rows |-> <<>>]
    ELSE [panicked |-> FALSE, rows |-> Split(results, Comma)]

\* The split of the raw results into one segment per row.
SplitRows(results, mapFields) ==
    IF Cardinality(DOMAIN mapFields) > 1
    THEN IF InRange(results, 2, Len(results) - 2)
         THEN [panicked |-> FALSE,
               rows |-> Split(Slice(results, 2, Len(results) - 2), <<"]", ",", "[">>)]
         ELSE [panicked |-> TRUE, rows |-> <<>>]
    ELSE IF InRange(results, 1, Len(results) - 1)
         THEN [panicked |-> FALSE,
               rows |-> Split(Slice(results, 1, Len(results) - 1), Comma)]
         ELSE [panicked |-> TRUE, rows |-> <<>>]

\* Whether tmp[a][1 : len(tmp[a])-1] panics for mapped field number k.
ColumnPanics(tmp, mapFields, k) ==
    /\ FieldNames[k] \in DOMAIN mapFields
    /\ \/ mapFields[FieldNames[k]] >= Len(tmp)
       \/ ~InRange(tmp[mapFields[FieldNames[k]] + 1], 1,
                   Len(tmp[mapFields[FieldNames[k]] + 1]) - 1)

\* The seven assignments of the loop body, made in order on a zero result.
RECURSIVE AssignFields(_, _, _, _)
AssignFields(r, tmp, mapFields, k) ==
    IF k > 7 THEN r
    ELSE IF FieldNames[k] \in DOMAIN mapFields
    THEN LET col == tmp[mapFields[FieldNames[k]] + 1]
         IN AssignFields(SetAttr(r, k, Slice(col, 1, Len(col) - 1)), tmp, mapFields, k + 1)
    ELSE AssignFields(r, tmp, mapFields, k + 1)

\* One iteration of the loop over resultArray.
ParseRow(v, mapFields) ==
    LET tmp == Split(v, Comma)
    IN IF \E k \in 1..7 : ColumnPanics(tmp, mapFields, k)
       THEN [panicked |-> TRUE, r |-> EmptyResult]
       ELSE [panicked |-> FALSE, r |-> AssignFields(EmptyResult, tmp, mapFields, 1)]

Return(results, err) == [results |-> results, err |-> err, panicked |-> FALSE]

\* The run-time panics: the call does not return.
Panic == [results |-> <<>>, err |-> NoError, panicked |-> TRUE]

\* Lines 186..217: split, loop, return.
BuildResults(results, mapFields) ==
    LET s == SplitRows(results, mapFields)
        parsed == [i \in 1..Len(s.rows) |-> ParseRow(s.rows[i], mapFields)]
    IN IF s.panicked \/ \E i \in 1..Len(parsed) : parsed[i].panicked
       THEN Panic
       ELSE Return([i \in 1..Len(parsed) |-> parsed[i].r], NoError)

\* The switch on dataType and err after jsonparser.Get(data, "results"):
\* "return" (nil, err), "panic" (err.Error() on a nil err) or "go on".
ResultsSwitch(g) ==
    IF g.dataType # "Array"
    THEN IF g.err = NoError THEN "panic" ELSE "return"
    ELSE IF g.err # NoError THEN "return" ELSE "go on"

\* ParseReply with the test of the size written size < 0.
ParseReplySizeBelowZero(data, mapFields) ==
    LET e == GetString(data)
        g == Get(data)
        sz == GetInt(data)
    IN IF e.err = NoError THEN Return(<<>>, ErrorsNew(e.str))
       ELSE IF ResultsSwitch(g) = "panic" THEN Panic
       ELSE IF ResultsSwitch(g) = "return" THEN Return(<<>>, g.err)
       ELSE IF sz.err # NoError THEN Return(<<>>, errFofaReplyWrongFormat)
       ELSE IF sz.n < 0 THEN Return(<<>>, errFofaReplyNoData)
       ELSE BuildResults(g.value, mapFields)

\* QueryAsArray after QueryAsJSON returned data with a nil error.
ParseReply(data, mapFields) ==
    LET e == GetString(data)
        g == Get(data)
        sz == GetInt(data)
    IN IF e.err = NoError THEN Return(<<>>, ErrorsNew(e.str))
       ELSE IF ResultsSwitch(g) = "panic" THEN Panic
       ELSE IF ResultsSwitch(g) = "return" THEN Return(<<>>, g.err)
       ELSE IF sz.err # NoError THEN Return(<<>>, errFofaReplyWrongFormat)
       ELSE IF sz.n < 1 THEN Return(<<>>, errFofaReplyNoData)
       ELSE BuildResults(g.value, mapFields)

\* QueryAsArray as one function of its arguments and of what the transport
\* gives: the call run alone.
QueryAsArray(a, r) ==
    LET j == JSONReturn(r)
    IN IF j.err # NoError THEN Return(<<>>, j.err)
       ELSE ParseReply(j.buf, MapFields(a))

-----------------------------------------------------------------------------
(* The inputs of the model: argument lists of the callers, bodies of the    *)
(* service.                                                                 *)

Callers == {"c1", "c2"}

ClientEmail == <<"e">>

ClientKey == <<"k">>

Pages == {1}

Queries == {<<"a">>, <<"i", "p", "=", "1">>}

FFoo == <<"f", "o", "o">>

\* The field lists a caller passes as args[1]: nil, one field, two fields in
\* both orders, a repeated field, an unrecognized name, three fields, padded
\* names.
FieldArgs ==
    {Nil, Bytes(FIP), Bytes(FTitle),
     Bytes(Join(<<FIP, FDomain>>, Comma)),
     Bytes(Join(<<FDomain, FIP>>, Comma)),
     Bytes(Join(<<FIP, FIP>>, Comma)),
     Bytes(Join(<<FIP, FFoo>>, Comma)),
     Bytes(Join(<<FHost, FIP, FPort>>, Comma)),
     Bytes(Join(<<FTitle \o <<" ">>, <<" ">> \o FIP>>, Comma))}

\* The variadic argument lists of 0..MaxArgs arguments.
ArgLists ==
    {<<>>} \cup {<<Bytes(q)>> : q \in Queries}
    \cup UNION {{[i \in 1..n |-> IF i = 1 THEN Bytes(q) ELSE IF i = 2 THEN f ELSE Bytes(<<"x">>)]
                    : q \in Queries, f \in FieldArgs} : n \in 2..MaxArgs}

\* The argument lists of the calls of QueryAsJSON, which does not read the
\* field list it is given.
JSONArgLists == {a \in ArgLists : Len(a) < 2 \/ a[2] \in {Nil, Bytes(FIP)}}

Digit == <<"1", "2", "3", "4", "5", "6", "7">>

\* The values of a row are its stem followed by the column number; the empty
\* stem gives empty values, the stem "c," values with a comma inside.
Stems == {<<"a">>, <<"b">>, <<>>, <<"c", ",">>}

Cell(stem, k) == IF stem = <<>> THEN <<>> ELSE stem \o <<Digit[k]>>

Widths == {2, 3, 7}

StemSeqs == UNION {[1..n -> Stems] : n \in 0..MaxRows}

ArrayPool ==
    {[kind |-> "Array", shape |-> "flat",
      rows |-> [i \in 1..Len(st) |-> <<Cell(st[i], 1)>>]] : st \in StemSeqs}
    \cup
    {[kind |-> "Array", shape |-> "nested",
      rows |-> [i \in 1..Len(st) |-> [k \in 1..w |-> Cell(st[i], k)]]]
        : st \in StemSeqs, w \in Widths}

ScalarPool ==
    {[kind |-> k, shape |-> "none", rows |-> <<>>]
        : k \in {"NotExist", "String", "Number", "Object", "Boolean", "Null"}}

ErrmsgPool ==
    {[kind |-> "NotExist", str |-> <<>>],
     [kind |-> "String", str |-> <<>>],
     [kind |-> "String", str |-> <<"n", "o">>]}

SizePool ==
    {[kind |-> "NotExist", n |-> 0], [kind |-> "String", n |-> 0]}
    \cup {[kind |-> "Number", n |-> n] : n \in {0, 1, MaxRows}}

Bodies == [errmsg : ErrmsgPool, size : SizePool, results : ArrayPool \cup ScalarPool]

\* The smaller pools of the concurrent specification.
FewArgLists ==
    {<<>>, <<Bytes(<<"a">>), Bytes(FIP)>>,
     <<Bytes(<<"a">>), Bytes(Join(<<FDomain, FIP>>, Comma))>>}

FewBodies ==
    {b \in Bodies :
        /\ b.size.kind = "Number" /\ b.size.n = 1
        /\ b.results.kind \in {"Array", "NotExist"}
        /\ Len(b.results.rows) \in {0, 1}
        /\ \A i \in 1..Len(b.results.rows) :
              /\ Len(b.results.rows[i]) < 7
              /\ b.results.rows[i][1] = <<"a", "1">>
        /\ b.errmsg.str = <<>>}

-----------------------------------------------------------------------------
(* The state machine.  pc[c] is where caller c stands: "idle", "get" (the   *)
(* URL is built and ff.Get is under way), "json" (QueryAsJSON has           *)
(* returned), "done" (QueryAsArray has returned or panicked).               *)

NoURL == [email |-> <<>>, key |-> <<>>, qbase64 |-> <<>>, fields |-> <<>>, page |-> 0]

NoResp == [getErr |-> FALSE, readErr |-> FALSE, body |-> EmptyBody]

NoJret == [buf |-> EmptyBody, isNil |-> TRUE, err |-> NoError]

NoRet == Return(<<>>, NoError)

Init ==
    /\ email = ClientEmail
    /\ key = ClientKey
    /\ pc = [c \in Callers |-> "idle"]
    /\ op = [c \in Callers |-> "none"]
    /\ page = [c \in Callers |-> 0]
    /\ args = [c \in Callers |-> <<>>]
    /\ url = [c \in Callers |-> NoURL]
    /\ resp = [c \in Callers |-> NoResp]
    /\ jret = [c \in Callers |-> NoJret]
    /\ ret = [c \in Callers |-> NoRet]

\* A panic that is not recovered ends the process: no caller goes on.
Crashed == \E c \in Callers : ret[c].panicked

\* Enter keeping the argument list in a place all callers share.
EnterSharedArgs(c, o, p, a) ==
    /\ pc' = [pc EXCEPT ![c] = "get"]
    /\ op' = [op EXCEPT ![c] = o]
    /\ page' = [page EXCEPT ![c] = p]
    /\ args' = [x \in Callers |-> a]
    /\ url' = [url EXCEPT ![c] = BuildURL(email, key, p, a)]
    /\ UNCHANGED <<email, key, resp, jret, ret>>

\* A call of o ("QueryAsJSON" or "QueryAsArray") up to ff.Get: the switch on
\* len(args), the encoding of the query, the URL.
Enter(c, o, p, a) ==
    /\ pc' = [pc EXCEPT ![c] = "get"]
    /\ op' = [op EXCEPT ![c] = o]
    /\ page' = [page EXCEPT ![c] = p]
    /\ args' = [args EXCEPT ![c] = a]
    /\ url' = [url EXCEPT ![c] = BuildURL(email, key, p, a)]
    /\ UNCHANGED <<email, key, resp, jret, ret>>

\* A caller calls o with a page and an argument list of its choice.
Call(c, o, lists) ==
    /\ ~Crashed
    /\ pc[c] = "idle"
    /\ \E p \in Pages, a \in lists : Enter(c, o, p, a)

\* ff.Get returns r, and QueryAsJSON returns.
GetDone(c, r) ==
    /\ ~Crashed
    /\ pc[c] = "get"
    /\ pc' = [pc EXCEPT ![c] = "json"]
    /\ resp' = [resp EXCEPT ![c] = r]
    /\ jret' = [jret EXCEPT ![c] = JSONReturn(r)]
    /\ UNCHANGED <<email, key, op, page, args, url, ret>>

\* ff.Get fails.
GetFails(c) == GetDone(c, [getErr |-> TRUE, readErr |-> FALSE, body |-> EmptyBody])

\* ff.Get succeeds and the body is read.
GetReplies(c, bodies) ==
    /\ pc[c] = "get"
    /\ \E body \in bodies :
          GetDone(c, [getErr |-> FALSE, readErr |-> FALSE, body |-> body])

\* ff.Get succeeds and reading the body fails before anything is read.
ReadFails(c) == GetDone(c, [getErr |-> FALSE, readErr |-> TRUE, body |-> EmptyBody])

\* QueryAsArray, QueryAsJSON having returned an error: return nil, err.
ArrayFails(c) ==
    /\ ~Crashed
    /\ pc[c] = "json" /\ op[c] = "QueryAsArray"
    /\ jret[c].err # NoError
    /\ pc' = [pc EXCEPT ![c] = "done"]
    /\ ret' = [ret EXCEPT ![c] = Return(<<>>, jret[c].err)]
    /\ UNCHANGED <<email, key, op, page, args, url, resp, jret>>

\* QueryAsArray, QueryAsJSON having returned data: the mapping and the parse.
ArrayParses(c) ==
    /\ ~Crashed
    /\ pc[c] = "json" /\ op[c] = "QueryAsArray"
    /\ jret[c].err = NoError
    /\ pc' = [pc EXCEPT ![c] = "done"]
    /\ ret' = [ret EXCEPT ![c] = ParseReply(jret[c].buf, MapFields(args[c]))]
    /\ UNCHANGED <<email, key, op, page, args, url, resp, jret>>

\* The caller has its result; the locals of the call are gone.
Returned(c) ==
    /\ ~Crashed
    /\ \/ pc[c] = "json" /\ op[c] = "QueryAsJSON"
       \/ pc[c] = "done"
    /\ pc' = [pc EXCEPT ![c] = "idle"]
    /\ op' = [op EXCEPT ![c] = "none"]
    /\ page' = [page EXCEPT ![c] = 0]
    /\ args' = [args EXCEPT ![c] = <<>>]
    /\ url' = [url EXCEPT ![c] = NoURL]
    /\ resp' = [resp EXCEPT ![c] = NoResp]
    /\ jret' = [jret EXCEPT ![c] = NoJret]
    /\ ret' = [ret EXCEPT ![c] = NoRet]
    /\ UNCHANGED <<email, key>>

\* One caller, every input of the pools.
Next ==
    \/ Call("c1", "QueryAsJSON", JSONArgLists)
    \/ Call("c1", "QueryAsArray", ArgLists)
    \/ GetFails("c1")
    \/ GetReplies("c1", Bodies)
    \/ ReadFails("c1")
    \/ ArrayFails("c1")
    \/ ArrayParses("c1")
    \/ Returned("c1")

Spec == Init /\ [][Next]_vars

\* Several callers on one client, their calls interleaved.
NextConc ==
    \E c \in Callers :
        \/ Call(c, "QueryAsJSON", FewArgLists)
        \/ Call(c, "QueryAsArray", FewArgLists)
        \/ GetFails(c)
        \/ GetReplies(c, FewBodies)
        \/ ReadFails(c)
        \/ ArrayFails(c)
        \/ ArrayParses(c)
        \/ Returned(c)

SpecConc == Init /\ [][NextConc]_vars

-----------------------------------------------------------------------------
(* What the claims speak of *)

\* QueryAsArray has returned to caller c, or has panicked.
ArrayDone(c) == pc[c] = "done" /\ op[c] = "QueryAsArray"

\* The transport gave caller c a body, read in full.
GotBody(c) == ~resp[c].getErr /\ ~resp[c].readErr

TheBody(c) == resp[c].body

TheRows(c) == resp[c].body.results.rows

NoErrmsg(c) == TheBody(c).errmsg.kind = "NotExist"

SizeAtLeastOne(c) == TheBody(c).size.kind = "Number" /\ TheBody(c).size.n >= 1

NestedArray(c) == TheBody(c).results.kind = "Array" /\ TheBody(c).results.shape = "nested"

FlatArray(c) == TheBody(c).results.kind = "Array" /\ TheBody(c).results.shape = "flat"

CommaFree(rows) ==
    \A i \in 1..Len(rows) : \A k \in 1..Len(rows[i]) :
        \A j \in 1..Len(rows[i][k]) : rows[i][k][j] # ","

\* The caller passed no field list.
NoFieldList(a) == Len(a) < 2 \/ a[2].isNil

\* The names of the field list the caller passed, padding removed.
Requested(a) ==
    LET fields == Split(a[2].b, Comma) IN [i \in 1..Len(fields) |-> Trim(fields[i])]

Recognized(n) == \E k \in 1..7 : FieldNames[k] = n

RecordOf(row) ==
    [Domain |-> row[1], Host |-> row[2], IP |-> row[3], Port |-> row[4],
     Title |-> row[5], Country |-> row[6], City |-> row[7]]

-----------------------------------------------------------------------------
C2_Original ==
    \A c \in Callers :
        ( /\ ArrayDone(c) /\ GotBody(c) /\ NoErrmsg(c)
          /\ TheBody(c).size = [kind |-> "Number", n |-> 0] )
        => ret[c] = Return(<<>>, errFofaReplyNoData)

\* C2, amended: size 0, no errmsg field and a results field that is an array
\* (empty or not) give errFofaReplyNoData and no records.
C2_NoDataWhenArray ==
    \A c \in Callers :
        ( /\ ArrayDone(c) /\ GotBody(c) /\ NoErrmsg(c)
          /\ TheBody(c).size = [kind |-> "Number", n |-> 0]
          /\ TheBody(c).results.kind = "Array" )
        => ret[c] = Return(<<>>, errFofaReplyNoData)

\* A reply with size 0 and a non-empty array has been answered.
C2_Witness ==
    /\ ArrayDone("c1") /\ GotBody("c1") /\ NoErrmsg("c1")
    /\ TheBody("c1").size = [kind |-> "Number", n |-> 0]
    /\ NestedArray("c1") /\ Len(TheRows("c1")) = 2
    /\ ret["c1"].err = errFofaReplyNoData

\* C3: a reply without error message whose results field is absent or is not
\* an array makes QueryAsArray return normally, with no records and
\* errFofaReplyWrongFormat.
C3_FormatError ==
    \A c \in Callers :
        ( /\ ArrayDone(c) /\ GotBody(c) /\ NoErrmsg(c)
          /\ TheBody(c).results.kind # "Array" )
        => ret[c] = Return(<<>>, errFofaReplyWrongFormat)

\* C4: a reply with a non-empty errmsg string gives an error whose message is
\* that errmsg and no records, whatever results and size are.
C4_RemoteError ==
    \A c \in Callers :
        ( /\ ArrayDone(c) /\ GotBody(c)
          /\ TheBody(c).errmsg.kind = "String" /\ TheBody(c).errmsg.str # <<>> )
        => ret[c] = Return(<<>>, ErrorsNew(TheBody(c).errmsg.str))

\* A reply with an errmsg, a size and two rows has been answered.
C4_Witness ==
    /\ ArrayDone("c1") /\ GotBody("c1")
    /\ TheBody("c1").errmsg = [kind |-> "String", str |-> <<"n", "o">>]
    /\ TheBody("c1").size = [kind |-> "Number", n |-> 2]
    /\ NestedArray("c1") /\ Len(TheRows("c1")) = 2
    /\ ret["c1"].err.msg = <<"n", "o">>

\* The caller passed a list of two or more distinct recognized field names.
DistinctRecognized(a) ==
    /\ Len(a) >= 2 /\ ~a[2].isNil
    /\ Len(Requested(a)) >= 2
    /\ \A i \in 1..Len(Requested(a)) : Recognized(Requested(a)[i])
    /\ \A i, j \in 1..Len(Requested(a)) : i # j => Requested(a)[i] # Requested(a)[j]

\* The record a row gives under a requested list: the value of column j in
\* the attribute named by the j-th requested field, the rest empty.
RecordUnder(names, row) ==
    [Domain |-> IF \E j \in 1..Len(names) : names[j] = FDomain
                THEN row[CHOOSE j \in 1..Len(names) : names[j] = FDomain] ELSE <<>>,
     Host |-> IF \E j \in 1..Len(names) : names[j] = FHost
              THEN row[CHOOSE j \in 1..Len(names) : names[j] = FHost] ELSE <<>>,
     IP |-> IF \E j \in 1..Len(names) : names[j] = FIP
            THEN row[CHOOSE j \in 1..Len(names) : names[j] = FIP] ELSE <<>>,
     Port |-> IF \E j \in 1..Len(names) : names[j] = FPort
              THEN row[CHOOSE j \in 1..Len(names) : names[j] = FPort] ELSE <<>>,
     Title |-> IF \E j \in 1..Len(names) : names[j] = FTitle
               THEN row[CHOOSE j \in 1..Len(names) : names[j] = FTitle] ELSE <<>>,
     Country |-> IF \E j \in 1..Len(names) : names[j] = FCountry
                 THEN row[CHOOSE j \in 1..Len(names) : names[j] = FCountry] ELSE <<>>,
     City |-> IF \E j \in 1..Len(names) : names[j] = FCity
              THEN row[CHOOSE j \in 1..Len(names) : names[j] = FCity] ELSE <<>>]

Positions(a) == IF NoFieldList(a) THEN 7 ELSE Len(Requested(a))

\* The record the claim C6 describes for a row: the attributes whose mapped
\* column is in the row are set, the others are left empty.
RecordOfShortRow(mapFields, row) ==
    [Domain |-> IF FDomain \in DOMAIN mapFields /\ mapFields[FDomain] < Len(row)
                THEN row[mapFields[FDomain] + 1] ELSE <<>>,
     Host |-> IF FHost \in DOMAIN mapFields /\ mapFields[FHost] < Len(row)
              THEN row[mapFields[FHost] + 1] ELSE <<>>,
     IP |-> IF FIP \in DOMAIN mapFields /\ mapFields[FIP] < Len(row)
            THEN row[mapFields[FIP] + 1] ELSE <<>>,
     Port |-> IF FPort \in DOMAIN mapFields /\ mapFields[FPort] < Len(row)
              THEN row[mapFields[FPort] + 1] ELSE <<>>,
     Title |-> IF FTitle \in DOMAIN mapFields /\ mapFields[FTitle] < Len(row)
               THEN row[mapFields[FTitle] + 1] ELSE <<>>,
     Country |-> IF FCountry \in DOMAIN mapFields /\ mapFields[FCountry] < Len(row)
                 THEN row[mapFields[FCountry] + 1] ELSE <<>>,
     City |-> IF FCity \in DOMAIN mapFields /\ mapFields[FCity] < Len(row)
              THEN row[mapFields[FCity] + 1] ELSE <<>>]

\* C6: when a row has fewer columns than the field mapping has positions,
\* QueryAsArray completes, leaves every attribute whose mapped column is
\* absent from the row empty and sets the attributes whose columns are
\* present; names of the list that are not recognized change no attribute.
C6_ShortRows ==
    \A c \in Callers :
        ( /\ ArrayDone(c) /\ GotBody(c) /\ NoErrmsg(c) /\ SizeAtLeastOne(c)
          /\ NestedArray(c)
          /\ Cardinality(DOMAIN MapFields(args[c])) > 1
          /\ Len(TheRows(c)) >= 1
          /\ CommaFree(TheRows(c))
          /\ \E i \in 1..Len(TheRows(c)) : Len(TheRows(c)[i]) < Positions(args[c]) )
        => ret[c] = Return([i \in 1..Len(TheRows(c)) |->
                               RecordOfShortRow(MapFields(args[c]), TheRows(c)[i])], NoError)

\* The number (1..7) of a recognized field name.
FieldNumber(n) == CHOOSE k \in 1..7 : FieldNames[k] = n

\* A field other than f, to stand beside it in a two-field list.
Beside(f) == IF f = FIP THEN FDomain ELSE FIP

\* The caller asked for the single recognized field f.
SingleField(a, f) == Len(a) = 2 /\ a[2] = Bytes(f) /\ Recognized(f)

\* The reply that carries the values of the flat reply r in the column of f
\* under the two-field list names, the other column holding the values of
\* the stem st.
AsColumnOf(r, names, f, st) ==
    [r EXCEPT !.body.results =
        [kind |-> "Array", shape |-> "nested",
         rows |-> [i \in 1..Len(r.body.results.rows) |->
                     [k \in 1..2 |-> IF names[k] = f THEN r.body.results.rows[i][1]
                                     ELSE Cell(st, k)]]]]

\* The one-field call of caller c on its flat reply and the two-field call
\* with the list names on the reply AsColumnOf give the same attribute f,
\* row by row.
SamePerRow(c, f, names, st) ==
    LET multi == QueryAsArray(<<args[c][1], Bytes(Join(names, Comma))>>,
                              AsColumnOf(resp[c], names, f, st))
    IN /\ ~ret[c].panicked /\ ~multi.panicked
       /\ ret[c].err = NoError /\ multi.err = NoError
       /\ Len(ret[c].results) = Len(TheRows(c))
       /\ Len(multi.results) = Len(TheRows(c))
       /\ \A i \in 1..Len(TheRows(c)) :
             Attr(ret[c].results[i], FieldNumber(f)) = Attr(multi.results[i], FieldNumber(f))

JSONDone(c) == pc[c] = "json" /\ op[c] = "QueryAsJSON"

C9_CallsIndependent ==
    /\ email = ClientEmail
    /\ key = ClientKey
    /\ \A c \in Callers :
          /\ pc[c] # "idle" => url[c] = BuildURL(ClientEmail, ClientKey, page[c], args[c])
          /\ pc[c] \in {"json", "done"} => jret[c] = JSONReturn(resp[c])
          /\ pc[c] = "done" => ret[c] = QueryAsArray(args[c], resp[c])

\* Two calls of QueryAsArray with different field lists and different
\* replies have both returned records.
C9_Witness ==
    /\ ArrayDone("c1") /\ ArrayDone("c2")
    /\ args["c1"] # args["c2"]
    /\ resp["c1"] # resp["c2"]
    /\ Len(ret["c1"].results) = 1 /\ Len(ret["c2"].results) = 1
    /\ ret["c1"].results # ret["c2"].results

\* The field list and the query the caller of QueryAsArray passed.
PassedFields(a) == IF Len(a) >= 2 /\ ~a[2].isNil THEN a[2].b ELSE DefaultFields

PassedQuery(a) == IF Len(a) >= 1 THEN a[1].b ELSE <<>>

\* C10: for a call of QueryAsArray with any number of arguments, the URL
\* carries the field list and (encoded) the query the caller passed, and the
\* mapping is built from the field list the URL carries.
C10_SameFieldsSentAndMapped ==
    \A c \in Callers :
        (op[c] = "QueryAsArray" /\ pc[c] # "idle") =>
            /\ url[c].fields = PassedFields(args[c])
            /\ url[c].qbase64 =
                  EncodeToString([i \in 1..Len(PassedQuery(args[c])) |->
                                     Ord(PassedQuery(args[c])[i])])
            /\ MapFields(args[c]) = MapFields(<<Nil, Bytes(url[c].fields)>>)

====
